---- MODULE Spec2Model ----
(***************************************************************************)
(* Model of accera/ir/src/value/ValueDialect.cpp: the MMA shape table and  *)
(* its derived queries, the operation verifiers, ReorderOp::build, the     *)
(* CastOp / GetElementOp folders, the region builders ReduceOp::build and  *)
(* MapReduceOp::build, and ValueFuncOp's builders, verifier and            *)
(* eraseArguments.                                                         *)
(*                                                                         *)
(* Each group of operations has its own specification (SpecMMA,            *)
(* SpecVerify, SpecReorder, SpecFold, SpecBuild, SpecFunc); the variables  *)
(* of the other groups stay at their initial value.  The verifiers and     *)
(* folders are pure: the                                                   *)
(* initial state draws the operation and the action applies the function.  *)
(***************************************************************************)
EXTENDS Integers, Sequences, FiniteSets

VARIABLES
    mma,        \* the MMAOp object: status, shape and the fields m, n, k, blocks
    query,      \* the last const member function called on mma and what it returned
    verified,   \* the operation last handed to a verifier
    verdict,    \* what the verifier did: "success", "failure", "assert" ("none" before)
    stage,      \* reorder chain: "none", "source", "reordered", "restored"
    sourceType, \* the MemRefType of the original source value
    prevType,   \* the MemRefType the last ReorderOp::build read
    resultType, \* the MemRefType the last ReorderOp::build produced
    order1,     \* the order of the first ReorderOp
    order2,     \* the order of the second ReorderOp
    folded,     \* the fold last called: op, operand attribute, types
    foldResult, \* the OpFoldResult it returned
    buildOp,    \* ReduceOp / MapReduceOp build: the call's arguments
    buildPc,    \* ... the statement it is at
    buildPhase, \* ... the region it is building: "map" or "reduce"
    opState,    \* ... the OperationState result: operands, types, regions
    insertionPoint, \* ... the OpBuilder's insertion point
    guards,     \* ... the insertion points saved by live InsertionGuards
    calls,      \* ... the body-builder callbacks invoked so far
    funcArgs,   \* ValueFuncOp build: the call's arguments
    funcPc,     \* ... the statement it is at
    func,       \* ... the function: attributes, type, argument attributes, body
    funcIP,     \* ... the OpBuilder's insertion point
    funcGuards, \* ... the insertion points saved by live InsertionGuards
    erasedArgs, \* the entry-block arguments eraseArguments was asked to erase
    funcVerdict \* the result of the last ValueFuncOp::verify

mmaVars == <<mma, query>>
verifyVars == <<verified, verdict>>
reorderVars == <<stage, sourceType, prevType, resultType, order1, order2>>
foldVars == <<folded, foldResult>>
buildVars == <<buildOp, buildPc, buildPhase, opState, insertionPoint, guards, calls>>
funcVars == <<funcArgs, funcPc, func, funcIP, funcGuards, erasedArgs, funcVerdict>>
vars == <<mma, query, verified, verdict, stage, sourceType, prevType, resultType,
          order1, order2, folded, foldResult,
          buildOp, buildPc, buildPhase, opState, insertionPoint, guards, calls,
          funcArgs, funcPc, func, funcIP, funcGuards, erasedArgs, funcVerdict>>

(***************************************************************************)
(* MMAShape.  An enumerator is modelled by the four numbers its name       *)
(* spells: MxxNxxKxx_Bxx is <<m, n, k, blocks>>.  A value outside the      *)
(* enumeration is a tuple that is no enumerator.                           *)
(***************************************************************************)
M64xN64xK1_B4 == <<64, 64, 1, 4>>
M64xN64xK1_B2 == <<64, 64, 1, 2>>
M64xN64xK2_B4 == <<64, 64, 2, 4>>
M64xN64xK2_B2 == <<64, 64, 2, 2>>
M64xN64xK4_B4 == <<64, 64, 4, 4>>
M64xN64xK4_B2 == <<64, 64, 4, 2>>
M32xN32xK2_B1 == <<32, 32, 2, 1>>
M32xN32xK4_B1 == <<32, 32, 4, 1>>
M32xN32xK8_B1 == <<32, 32, 8, 1>>
M16xN16xK4_B1 == <<16, 16, 4, 1>>
M16xN16xK8_B1 == <<16, 16, 8, 1>>
M16xN16xK16_B1 == <<16, 16, 16, 1>>
M32xN8xK16_B1 == <<32, 8, 16, 1>>
M8xN32xK16_B1 == <<8, 32, 16, 1>>

MMAShape ==
    { M64xN64xK1_B4, M64xN64xK1_B2, M64xN64xK2_B4, M64xN64xK2_B2,
      M64xN64xK4_B4, M64xN64xK4_B2, M32xN32xK2_B1, M32xN32xK4_B1,
      M32xN32xK8_B1, M16xN16xK4_B1, M16xN16xK8_B1, M16xN16xK16_B1,
      M32xN8xK16_B1, M8xN32xK16_B1 }

\* Values of the underlying integer type that name no enumerator.
InvalidShapes == { <<0, 0, 0, 0>>, <<16, 16, 2, 1>>, <<64, 64, 8, 4>> }

ShapeInputs == MMAShape \cup InvalidShapes

Descriptor(shape_, m_, n_, k_, blocks_) ==
    [status |-> "ok", shape |-> shape_, m |-> m_, n |-> n_, k |-> k_, blocks |-> blocks_]

\* default: assert(false && "Invalid MMA shape."): construction does not complete.
InvalidMMAShape(shape_) ==
    [status |-> "fatal", shape |-> shape_, m |-> 0, n |-> 0, k |-> 0, blocks |-> 0]

NoMMA == [status |-> "none", shape |-> <<0, 0, 0, 0>>, m |-> 0, n |-> 0, k |-> 0, blocks |-> 0]

MMAOp_MissingCase(shape_) ==
    CASE shape_ = M64xN64xK1_B4 -> Descriptor(shape_, 64, 64, 1, 4)
      [] shape_ = M64xN64xK1_B2 -> Descriptor(shape_, 64, 64, 1, 2)
      [] shape_ = M64xN64xK2_B4 -> Descriptor(shape_, 64, 64, 2, 4)
      [] shape_ = M64xN64xK2_B2 -> Descriptor(shape_, 64, 64, 2, 2)
      [] shape_ = M64xN64xK4_B4 -> Descriptor(shape_, 64, 64, 4, 4)
      [] shape_ = M64xN64xK4_B2 -> Descriptor(shape_, 64, 64, 4, 2)
      [] shape_ = M32xN32xK2_B1 -> Descriptor(shape_, 32, 32, 2, 1)
      [] shape_ = M32xN32xK4_B1 -> Descriptor(shape_, 32, 32, 4, 1)
      [] shape_ = M32xN32xK8_B1 -> Descriptor(shape_, 32, 32, 8, 1)
      [] shape_ = M16xN16xK4_B1 -> Descriptor(shape_, 16, 16, 4, 1)
      [] shape_ = M16xN16xK8_B1 -> Descriptor(shape_, 16, 16, 8, 1)
      [] shape_ = M16xN16xK16_B1 -> Descriptor(shape_, 16, 16, 16, 1)
      [] shape_ = M32xN8xK16_B1 -> Descriptor(shape_, 32, 8, 16, 1)
      [] OTHER -> InvalidMMAShape(shape_)

\* MMAOp::MMAOp(MMAShape shape_): the switch over shape.
MMAOp(shape_) ==
    CASE shape_ = M64xN64xK1_B4 -> Descriptor(shape_, 64, 64, 1, 4)
      [] shape_ = M64xN64xK1_B2 -> Descriptor(shape_, 64, 64, 1, 2)
      [] shape_ = M64xN64xK2_B4 -> Descriptor(shape_, 64, 64, 2, 4)
      [] shape_ = M64xN64xK2_B2 -> Descriptor(shape_, 64, 64, 2, 2)
      [] shape_ = M64xN64xK4_B4 -> Descriptor(shape_, 64, 64, 4, 4)
      [] shape_ = M64xN64xK4_B2 -> Descriptor(shape_, 64, 64, 4, 2)
      [] shape_ = M32xN32xK2_B1 -> Descriptor(shape_, 32, 32, 2, 1)
      [] shape_ = M32xN32xK4_B1 -> Descriptor(shape_, 32, 32, 4, 1)
      [] shape_ = M32xN32xK8_B1 -> Descriptor(shape_, 32, 32, 8, 1)
      [] shape_ = M16xN16xK4_B1 -> Descriptor(shape_, 16, 16, 4, 1)
      [] shape_ = M16xN16xK8_B1 -> Descriptor(shape_, 16, 16, 8, 1)
      [] shape_ = M16xN16xK16_B1 -> Descriptor(shape_, 16, 16, 16, 1)
      [] shape_ = M32xN8xK16_B1 -> Descriptor(shape_, 32, 8, 16, 1)
      [] shape_ = M8xN32xK16_B1 -> Descriptor(shape_, 8, 32, 16, 1)
      [] OTHER -> InvalidMMAShape(shape_)

\* MMAOperandType: A, B, Acc; "D" stands for any other value of the type.
MMAOperandType == { "A", "B", "Acc" }
OperandInputs == MMAOperandType \cup { "D" }

WarpSizes == { 32, 64 }

getM(d) == d.m
getN(d) == d.n
getK(d) == d.k
getNumBlocks(d) == d.blocks

\* int64 division of non-negative operands.
getInElementsPerThread(d, warpSize) == (d.m * d.k) \div warpSize

getOutElementsPerThread(d, warpSize) == (getM(d) * getN(d)) \div warpSize

getOperandShape_NoDefault(d, operandType) ==
    CASE operandType = "A" -> << getM(d), getK(d) >>
      [] operandType = "B" -> << getK(d), getN(d) >>
      [] OTHER -> << getM(d), getN(d) >>

getOperandShape(d, operandType) ==
    CASE operandType = "A" -> << getM(d), getK(d) >>
      [] operandType = "B" -> << getK(d), getN(d) >>
      [] operandType = "Acc" -> << getM(d), getN(d) >>
      [] OTHER -> << >>

OffsetMap32 ==
    << 0, 4, 1, 5, 2, 6, 3, 7, 8, 12, 9, 13, 10, 14, 11, 15,
       16, 20, 17, 21, 18, 22, 19, 23, 24, 28, 25, 29, 26, 30, 27, 31 >>

OffsetMap16 == << 0, 4, 8, 12, 1, 5, 9, 13, 2, 6, 10, 14, 3, 7, 11, 15 >>

getOffsetMap(d) ==
    IF getNumBlocks(d) = 2 \/ d.m = 32 THEN OffsetMap32 ELSE OffsetMap16

getOffsetMapSize_BlocksOnly(d) ==
    IF getNumBlocks(d) = 2 THEN << 16, 2 >> ELSE << 4, 4 >>

getOffsetMapSize(d) ==
    IF getNumBlocks(d) = 2 \/ d.m = 32 THEN << 16, 2 >> ELSE << 4, 4 >>

NoQuery == [fn |-> "none", operand |-> "none", warp |-> 0, ret |-> << >>]


\* MMAOp mmaOp{ shape };
Construct(shape_) ==
    /\ mma' = MMAOp(shape_)
    /\ query' = NoQuery
    /\ UNCHANGED <<verifyVars, reorderVars, foldVars, buildVars, funcVars>>

\* The member functions are callable on a constructed object only.
Constructed == mma.status = "ok"

CallGetOperandShape(operandType) ==
    /\ Constructed
    /\ query' = [fn |-> "getOperandShape", operand |-> operandType, warp |-> 0,
                 ret |-> getOperandShape(mma, operandType)]
    /\ UNCHANGED <<mma, verifyVars, reorderVars, foldVars, buildVars, funcVars>>

CallGetOffsetMap ==
    /\ Constructed
    /\ query' = [fn |-> "getOffsetMap", operand |-> "none", warp |-> 0,
                 ret |-> getOffsetMap(mma)]
    /\ UNCHANGED <<mma, verifyVars, reorderVars, foldVars, buildVars, funcVars>>

CallGetOffsetMapSize ==
    /\ Constructed
    /\ query' = [fn |-> "getOffsetMapSize", operand |-> "none", warp |-> 0,
                 ret |-> getOffsetMapSize(mma)]
    /\ UNCHANGED <<mma, verifyVars, reorderVars, foldVars, buildVars, funcVars>>

CallGetInElementsPerThread(warpSize) ==
    /\ Constructed
    /\ query' = [fn |-> "getInElementsPerThread", operand |-> "none", warp |-> warpSize,
                 ret |-> << getInElementsPerThread(mma, warpSize) >>]
    /\ UNCHANGED <<mma, verifyVars, reorderVars, foldVars, buildVars, funcVars>>

CallGetOutElementsPerThread(warpSize) ==
    /\ Constructed
    /\ query' = [fn |-> "getOutElementsPerThread", operand |-> "none", warp |-> warpSize,
                 ret |-> << getOutElementsPerThread(mma, warpSize) >>]
    /\ UNCHANGED <<mma, verifyVars, reorderVars, foldVars, buildVars, funcVars>>

NextMMA ==
    \/ \E shape_ \in ShapeInputs : Construct(shape_)
    \/ \E operandType \in OperandInputs : CallGetOperandShape(operandType)
    \/ CallGetOffsetMap
    \/ CallGetOffsetMapSize
    \/ \E warpSize \in WarpSizes : CallGetInElementsPerThread(warpSize)
    \/ \E warpSize \in WarpSizes : CallGetOutElementsPerThread(warpSize)

(***************************************************************************)
(* Operation verifiers.                                                    *)
(***************************************************************************)

\* MemorySpace.  The verifiers name None, Global, Shared, Private and Tensor;
\* the other two stand for any further value getMemorySpaceAsInt() can return.
MemorySpaceInputs == { "None", "Global", "Shared", "Private", "Tensor", "Constant", "Unknown" }

ElementTypes == { "f16", "f32", "i8", "i32" }

MaxTileRank == 3
MaxWork == 4

TileDims == { 2, 3 }
ShapeInputsOfRank(r) == [ 1..r -> TileDims ]
TileShapeInputs == UNION { ShapeInputsOfRank(r) : r \in 1..MaxTileRank }
WorkInputs == (-1)..MaxWork

success == [result |-> "success", message |-> ""]
emitError(message_) == [result |-> "failure", message |-> message_]
\* assert(cond) with cond false: the verifier returns nothing.
assertFailed == [result |-> "assert", message |-> ""]
NoVerdict == [result |-> "none", message |-> ""]

\* An operation as the verifiers read it; a verifier looks at its own fields only.
Operation(op_, memSpace_, operand_, a_, b_, c_, tile_, dst_, wpt_, vec_, rowMajor_) ==
    [op |-> op_, memorySpace |-> memSpace_, operandType |-> operand_,
     opAType |-> a_, opBType |-> b_, opCType |-> c_,
     tileShape |-> tile_, dstShape |-> dst_,
     workPerThread |-> wpt_, vecWidth |-> vec_, dstRowMajor |-> rowMajor_]

NoOp == Operation("none", "None", "A", "f32", "f32", "f32", << >>, << >>, 1, 1, TRUE)

MMAComputeSyncOp(a_, b_, c_, memSpace_) ==
    Operation("MMAComputeSyncOp", memSpace_, "A", a_, b_, c_, << >>, << >>, 1, 1, TRUE)

MMALoadSyncOp(memSpace_, operand_) ==
    Operation("MMALoadSyncOp", memSpace_, operand_, "f32", "f32", "f32", << >>, << >>, 1, 1, TRUE)

MMAStoreSyncOp(memSpace_) ==
    Operation("MMAStoreSyncOp", memSpace_, "Acc", "f32", "f32", "f32", << >>, << >>, 1, 1, TRUE)

GPUBlockCacheOp(memSpace_, tile_, dst_, wpt_, vec_, rowMajor_) ==
    Operation("GPUBlockCacheOp", memSpace_, "A", "f32", "f32", "f32", tile_, dst_, wpt_, vec_, rowMajor_)

verifyMMAComputeSyncOp_AlwaysSuccess(op) == success

verifyMMAComputeSyncOp(op) ==
    IF op.opAType # op.opBType
    THEN emitError("Invalid data types for A and B.")
    ELSE success

verifyMMALoadSyncOp_NoTensor(op) ==
    LET srcMemSpace == op.memorySpace
        operand == op.operandType
    IN  IF srcMemSpace # "None" /\ srcMemSpace # "Shared" /\
           srcMemSpace # "Global" /\ srcMemSpace # "Private"
        THEN emitError("source memorySpace None, Shared, Private, Global or Tensor only allowed")
        ELSE IF operand # "A" /\ operand # "B" /\ operand # "Acc"
        THEN emitError("only AOp, BOp and COp can be loaded")
        ELSE success

verifyMMALoadSyncOp(op) ==
    LET srcMemSpace == op.memorySpace
        operand == op.operandType
    IN  IF srcMemSpace # "None" /\ srcMemSpace # "Shared" /\
           srcMemSpace # "Global" /\ srcMemSpace # "Private" /\ srcMemSpace # "Tensor"
        THEN emitError("source memorySpace None, Shared, Private, Global or Tensor only allowed")
        ELSE IF operand # "A" /\ operand # "B" /\ operand # "Acc"
        THEN emitError("only AOp, BOp and COp can be loaded")
        ELSE success

verifyMMAStoreSyncOp(op) ==
    LET dstMemSpace == op.memorySpace
    IN  IF dstMemSpace # "None" /\ dstMemSpace # "Shared" /\
           dstMemSpace # "Global" /\ dstMemSpace # "Private" /\ dstMemSpace # "Tensor"
        THEN emitError("destination memorySpace of None, Global, Shared, Private or Tensor only allowed")
        ELSE success

verifyGPUBlockCacheOp_NoMultipleCheck(op) ==
    LET tileShape == op.tileShape
        destMemSpace == op.memorySpace
        dstShape == op.dstShape
    IN  IF Len(tileShape) # 2
        THEN emitError("Only 2-D tiles are supported.")
        ELSE IF Len(dstShape) # 2
        THEN emitError("Only 2-D destination memrefs are supported.")
        ELSE IF op.workPerThread < 1 \/ op.vecWidth < 1
        THEN emitError("Work per thread (WPT) must be >= 1 and vector width must be >= 1 and WPT must be a multiple of vector width.")
        ELSE IF ~( ~(destMemSpace = "Shared" /\ op.dstRowMajor)
                   \/ (dstShape[1] = tileShape[1] /\ dstShape[2] = tileShape[2]) )
        THEN assertFailed
        ELSE IF ~( ~(destMemSpace = "Shared" /\ ~op.dstRowMajor)
                   \/ (dstShape[1] = tileShape[2] /\ dstShape[2] = tileShape[1]) )
        THEN assertFailed
        ELSE success

\* tileShapeVec[0], [1] and dstShape[0], [1] are the first and second element.
verifyGPUBlockCacheOp(op) ==
    LET tileShape == op.tileShape
        destMemSpace == op.memorySpace
        dstShape == op.dstShape
    IN  IF Len(tileShape) # 2
        THEN emitError("Only 2-D tiles are supported.")
        ELSE IF Len(dstShape) # 2
        THEN emitError("Only 2-D destination memrefs are supported.")
        ELSE IF op.workPerThread < 1 \/ op.vecWidth < 1 \/ op.workPerThread % op.vecWidth # 0
        THEN emitError("Work per thread (WPT) must be >= 1 and vector width must be >= 1 and WPT must be a multiple of vector width.")
        ELSE IF ~( ~(destMemSpace = "Shared" /\ op.dstRowMajor)
                   \/ (dstShape[1] = tileShape[1] /\ dstShape[2] = tileShape[2]) )
        THEN assertFailed
        ELSE IF ~( ~(destMemSpace = "Shared" /\ ~op.dstRowMajor)
                   \/ (dstShape[1] = tileShape[2] /\ dstShape[2] = tileShape[1]) )
        THEN assertFailed
        ELSE success

VerifyInputs ==
    { MMAComputeSyncOp(a_, b_, c_, memSpace_) :
        a_ \in ElementTypes, b_ \in ElementTypes, c_ \in ElementTypes,
        memSpace_ \in { "Shared", "Constant" } }
    \cup { MMALoadSyncOp(memSpace_, operand_) :
        memSpace_ \in MemorySpaceInputs, operand_ \in OperandInputs }
    \cup { MMAStoreSyncOp(memSpace_) : memSpace_ \in MemorySpaceInputs }
    \cup { GPUBlockCacheOp(memSpace_, tile_, dst_, wpt_, vec_, rowMajor_) :
        memSpace_ \in { "Shared", "Global" }, tile_ \in TileShapeInputs,
        dst_ \in TileShapeInputs, wpt_ \in WorkInputs, vec_ \in WorkInputs,
        rowMajor_ \in BOOLEAN }

InitVerify == verified \in VerifyInputs /\ verdict = NoVerdict

Unverified == verdict = NoVerdict

VerifyCompute ==
    /\ Unverified /\ verified.op = "MMAComputeSyncOp"
    /\ verdict' = verifyMMAComputeSyncOp(verified)
    /\ UNCHANGED <<verified, mmaVars, reorderVars, foldVars, buildVars, funcVars>>

VerifyLoad ==
    /\ Unverified /\ verified.op = "MMALoadSyncOp"
    /\ verdict' = verifyMMALoadSyncOp(verified)
    /\ UNCHANGED <<verified, mmaVars, reorderVars, foldVars, buildVars, funcVars>>

VerifyStore ==
    /\ Unverified /\ verified.op = "MMAStoreSyncOp"
    /\ verdict' = verifyMMAStoreSyncOp(verified)
    /\ UNCHANGED <<verified, mmaVars, reorderVars, foldVars, buildVars, funcVars>>

VerifyBlockCache ==
    /\ Unverified /\ verified.op = "GPUBlockCacheOp"
    /\ verdict' = verifyGPUBlockCacheOp(verified)
    /\ UNCHANGED <<verified, mmaVars, reorderVars, foldVars, buildVars, funcVars>>

NextVerify ==
    \/ VerifyCompute
    \/ VerifyLoad
    \/ VerifyStore
    \/ VerifyBlockCache

(***************************************************************************)
(* ReorderOp::build.  A MemRefType is its shape and its layout; vectors    *)
(* are functions on 0..rank-1, indexed as in the code.  A layout is the    *)
(* identity (no layout map) or the affine map                              *)
(*   (d0, .., dn-1) -> const + coeffs[0] * d0 + .. + coeffs[n-1] * dn-1.   *)
(***************************************************************************)
MaxRank == 3
MaxStride == 2
MaxOffset == 1

DimSizes == { 2, 3 }

Dims(r) == 0..(r - 1)
Rank(type) == Cardinality(DOMAIN type.shape)

IdentityLayout == [kind |-> "identity", coeffs |-> << >>, const |-> 0]

MemRefType(shape_, layout_) == [shape |-> shape_, layout |-> layout_]

NoType == MemRefType(<< >>, IdentityLayout)
NoOrder == << >>

RECURSIVE Product(_, _)
\* shape[from] * .. * shape[rank - 1]
Product(shape_, from) ==
    IF from \notin DOMAIN shape_ THEN 1 ELSE shape_[from] * Product(shape_, from + 1)

RECURSIVE Sum(_, _)
Sum(f, S) ==
    IF S = {} THEN 0
    ELSE LET x == CHOOSE y \in S : TRUE IN f[x] + Sum(f, S \ {x})

\* makeStridedLinearLayoutMap(strides, offset, context)
makeStridedLinearLayoutMap(strides, offset) ==
    [kind |-> "strided", coeffs |-> strides, const |-> offset]

\* getStridesAndOffset(sourceType, strides, offset): the strides and offset of the
\* layout map; a type without a layout map has the row-major strides of its shape.
getStridesAndOffset(type) ==
    IF type.layout.kind = "identity"
    THEN [strides |-> [i \in DOMAIN type.shape |-> Product(type.shape, i + 1)], offset |-> 0]
    ELSE [strides |-> type.layout.coeffs, offset |-> type.layout.const]

\* AffineMap::getPermutationMap(affineMapOrder, context):
\* (d0, .., dn-1) -> (d_affineMapOrder[0], .., d_affineMapOrder[n-1])
getPermutationMap(affineMapOrder) == [kind |-> "permutation", results |-> affineMapOrder]

compose_OffsetDropped(map, permutationMap) ==
    [kind |-> "strided",
     coeffs |-> [d \in DOMAIN permutationMap.results |->
                    Sum(map.coeffs, { j \in DOMAIN map.coeffs : permutationMap.results[j] = d })],
     const |-> 0]

\* map.compose(permutationMap): x -> map(permutationMap(x)); input dimension d gets
\* the coefficients of the positions j that read d.
compose(map, permutationMap) ==
    [kind |-> "strided",
     coeffs |-> [d \in DOMAIN permutationMap.results |->
                    Sum(map.coeffs, { j \in DOMAIN map.coeffs : permutationMap.results[j] = d })],
     const |-> map.const]

\* permutedSizes[en.index()] = originalSizes[en.value()]
permutedSizes(originalSizes, dimOrder) ==
    [i \in DOMAIN dimOrder |-> originalSizes[dimOrder[i]]]

affineMapOrder_NotInverted(dimOrder) == dimOrder

\* affineMapOrder[en.value()] = en.index(): the last index that names d, 0 if none.
affineMapOrder(dimOrder) ==
    [d \in DOMAIN dimOrder |->
        LET named == { i \in DOMAIN dimOrder : dimOrder[i] = d }
        IN  IF named = {} THEN 0
            ELSE CHOOSE i \in named : \A j \in named : j <= i]

\* The result MemRefType of ReorderOp::build(builder, result, source, orderAttr).
ReorderOp_build(type, dimOrder) ==
    LET originalSizes == type.shape
        permutationMap == getPermutationMap(affineMapOrder(dimOrder))
        so == getStridesAndOffset(type)
        map == compose(makeStridedLinearLayoutMap(so.strides, so.offset), permutationMap)
    IN  MemRefType(permutedSizes(originalSizes, dimOrder), map)

\* The orders the builder accepts: the bijections on [0, rank).
DimOrders(r) ==
    { p \in [Dims(r) -> Dims(r)] : \A i, j \in Dims(r) : p[i] = p[j] => i = j }

Inverse(p) == [d \in DOMAIN p |-> CHOOSE i \in DOMAIN p : p[i] = d]

SourceTypes ==
    UNION { { MemRefType(shape_, layout_) :
                shape_ \in [Dims(r) -> DimSizes],
                layout_ \in { IdentityLayout } \cup
                    { makeStridedLinearLayoutMap(strides, offset) :
                        strides \in [Dims(r) -> 1..MaxStride], offset \in 0..MaxOffset } }
            : r \in 1..MaxRank }

InitReorder ==
    /\ stage = "source"
    /\ sourceType \in SourceTypes
    /\ prevType = NoType
    /\ resultType = sourceType
    /\ order1 = NoOrder
    /\ order2 = NoOrder

\* builder.create<ReorderOp>(loc, source, order)
Reorder(dimOrder) ==
    /\ stage = "source"
    /\ prevType' = resultType
    /\ resultType' = ReorderOp_build(resultType, dimOrder)
    /\ order1' = dimOrder
    /\ stage' = "reordered"
    /\ UNCHANGED <<sourceType, order2, mmaVars, verifyVars, foldVars, buildVars, funcVars>>

\* builder.create<ReorderOp>(loc, reordered, inverse of order)
ReorderBack ==
    /\ stage = "reordered"
    /\ prevType' = resultType
    /\ resultType' = ReorderOp_build(resultType, Inverse(order1))
    /\ order2' = Inverse(order1)
    /\ stage' = "restored"
    /\ UNCHANGED <<sourceType, order1, mmaVars, verifyVars, foldVars, buildVars, funcVars>>

NextReorder ==
    \/ \E dimOrder \in DimOrders(Rank(resultType)) : Reorder(dimOrder)
    \/ ReorderBack

(***************************************************************************)
(* CastOp::fold and GetElementOp::fold.  An attribute is its kind, type    *)
(* and value; the null attribute is an operand that is no known constant.  *)
(* An integer value is kept sign-extended (unsigned types zero-extended).  *)
(***************************************************************************)
MaxConst == 5

SignlessTypes == { "i1", "i8", "i32" }
UnsignedTypes == { "ui8" }
SignedTypes == { "si8" }
FloatTypes == { "f32" }
TypeInputs ==
    SignlessTypes \cup UnsignedTypes \cup SignedTypes \cup FloatTypes \cup { "index", "tensor" }

isSignlessInteger(type) == type \in SignlessTypes
isIndex(type) == type = "index"
isFloat(type) == type \in FloatTypes
isSignlessIntOrIndex(type) == isSignlessInteger(type) \/ isIndex(type)
isSignlessIntOrIndexOrFloat(type) == isSignlessIntOrIndex(type) \/ isFloat(type)

BitWidth(type) ==
    CASE type = "i1" -> 1
      [] type \in { "i8", "ui8", "si8" } -> 8
      [] type = "i32" -> 32
      [] OTHER -> 64

\* The value of an APInt of `width` bits built from v.  The inputs stay far below
\* 2^31, so a width of 32 or 64 bits keeps them.
APInt(width, v, isSigned) ==
    IF width >= 31 THEN v
    ELSE IF isSigned THEN ((v + 2 ^ (width - 1)) % (2 ^ width)) - 2 ^ (width - 1)
    ELSE v % (2 ^ width)

NullAttr == [kind |-> "null", type |-> "none", value |-> 0]
NotFoldable == NullAttr

\* IntegerAttr::get(type, int64_t)
IntegerAttr_get(type, v) ==
    [kind |-> "IntegerAttr", type |-> type,
     value |-> APInt(BitWidth(type), v, type \notin UnsignedTypes)]

\* FloatAttr::get(type, double): the int64 converts exactly for these magnitudes.
FloatAttr_get(type, v) == [kind |-> "FloatAttr", type |-> type, value |-> v]

\* The result of a fold that returns one of the op's operands.
OperandValue(type) == [kind |-> "Value", type |-> type, value |-> 0]

\* IntegerAttr::getInt() of a signless-integer or index constant: its
\* sign-extended value.
getInt(attr) == attr.value

CastOp_fold_IntOnly(operand, castType) ==
    IF operand.kind = "IntegerAttr"
    THEN IF isSignlessIntOrIndexOrFloat(castType)
         THEN IntegerAttr_get(castType, getInt(operand))
         ELSE NotFoldable
    ELSE NotFoldable

\* CastOp::fold(operands): operand is operands[0], castType is getType().
CastOp_fold(operand, castType) ==
    IF operand.kind = "IntegerAttr"
    THEN IF isSignlessIntOrIndex(castType)
         THEN IntegerAttr_get(castType, getInt(operand))
         ELSE IF isSignlessIntOrIndexOrFloat(castType)
         THEN FloatAttr_get(castType, getInt(operand))
         ELSE NotFoldable
    ELSE NotFoldable

\* GetElementOp::fold(operands)
GetElementOp_fold(operandType, type) ==
    IF operandType = type THEN OperandValue(operandType) ELSE NotFoldable

ConstInputs == (-1)..MaxConst

IntegerAttrs ==
    { IntegerAttr_get(type, v) :
        type \in SignlessTypes \cup UnsignedTypes \cup SignedTypes \cup { "index" },
        v \in ConstInputs }

OperandAttrs ==
    IntegerAttrs \cup { NullAttr, FloatAttr_get("f32", 5), [kind |-> "UnitAttr", type |-> "none", value |-> 0] }

Fold(op_, operand_, operandType_, type_) ==
    [op |-> op_, operand |-> operand_, operandType |-> operandType_, resultType |-> type_]

NoFold == Fold("none", NullAttr, "none", "none")

Unfolded == [kind |-> "pending", type |-> "none", value |-> 0]

\* The operand's type is its constant's type when it is a typed constant.
FoldInputs ==
    { Fold("CastOp", operand, operandType, castType) :
        operand \in OperandAttrs, operandType \in TypeInputs, castType \in TypeInputs }
    \cup { Fold("GetElementOp", NullAttr, operandType, type) :
        operandType \in TypeInputs, type \in TypeInputs }

\* getInt() of a constant that is neither signless nor index is decided outside
\* this file: such a constant is folded only where the fold does not read it.
InitFold ==
    /\ folded \in FoldInputs
    /\ folded.operand.kind \in { "IntegerAttr", "FloatAttr" } => folded.operandType = folded.operand.type
    /\ (folded.operand.kind = "IntegerAttr" /\ ~isSignlessIntOrIndex(folded.operand.type))
          => ~isSignlessIntOrIndexOrFloat(folded.resultType)
    /\ foldResult = Unfolded

FoldCast ==
    /\ foldResult = Unfolded /\ folded.op = "CastOp"
    /\ foldResult' = CastOp_fold(folded.operand, folded.resultType)
    /\ UNCHANGED <<folded, mmaVars, verifyVars, reorderVars, buildVars, funcVars>>

FoldGetElement ==
    /\ foldResult = Unfolded /\ folded.op = "GetElementOp"
    /\ foldResult' = GetElementOp_fold(folded.operandType, folded.resultType)
    /\ UNCHANGED <<folded, mmaVars, verifyVars, reorderVars, buildVars, funcVars>>

NextFold ==
    \/ FoldCast
    \/ FoldGetElement

(***************************************************************************)
(* Region builders: ReduceOp::build and MapReduceOp::build.                *)
(*                                                                         *)
(* The builder is followed statement by statement.  A block is its         *)
(* arguments (their types) and its operations; a region is its blocks.     *)
(* An insertion point names a block and the position in it before which    *)
(* the next operation is created; block 0 is the caller's block, block r   *)
(* the entry block of result.regions[r].  What a body callback does is up  *)
(* to the caller: it creates some operations at the insertion point and    *)
(* may leave the builder pointing anywhere.                                *)
(***************************************************************************)
MaxBodyOps == 1

Block(arguments_, operations_) == [arguments |-> arguments_, operations |-> operations_]
InsertionPoint(block_, before_) == [block |-> block_, before |-> before_]
CallerInsertionPoints == { InsertionPoint(0, k) : k \in 1..2 }

\* ReduceOp::build has one body builder; MapReduceOp::build has two.
BuildCalls ==
    { b \in { [op |-> o, initArg |-> t, mapBodyBuilder |-> m,
               reduceBodyBuilder |-> r, ip |-> p] :
                 o \in { "ReduceOp", "MapReduceOp" }, t \in { "f32", "i32" },
                 m \in BOOLEAN, r \in BOOLEAN, p \in CallerInsertionPoints } :
        b.op = "ReduceOp" => ~b.mapBodyBuilder }

EmptyOperationState == [operands |-> <<>>, types |-> <<>>, regions |-> <<>>]
NoBuild ==
    [op |-> "none", initArg |-> "none", mapBodyBuilder |-> FALSE,
     reduceBodyBuilder |-> FALSE, ip |-> InsertionPoint(0, 1)]

\* `if (bodyBuilder)`, `if (mapBodyBuilder)`, `if (reduceBodyBuilder)`
bodyBuilderSupplied(phase_) ==
    IF phase_ = "map" THEN buildOp.mapBodyBuilder ELSE buildOp.reduceBodyBuilder

\* The addArgument calls made on the region's entry block before its body.
NumBodyArguments(phase_) == IF phase_ = "map" THEN 1 ELSE 2

\* The region being built is the last one added to result.regions.
bodyRegion == Len(opState.regions)
bodyBlock == opState.regions[bodyRegion].blocks[1]

withBodyBlock(block_) ==
    [opState EXCEPT !.regions[bodyRegion].blocks[1] = block_]

\* OpBuilder::InsertionGuard: its destructor puts back the saved point.
InsertionGuard_NotRestored(saved_, current_) == current_
InsertionGuard(saved_, current_) == saved_

\* builder.create at an insertion point: the operations go in before it.
RECURSIVE createOps(_, _, _)
createOps(operations_, before_, n_) ==
    IF n_ = 0 THEN operations_
    ELSE createOps(SubSeq(operations_, 1, before_ - 1) \o << "op" >>
                       \o SubSeq(operations_, before_, Len(operations_)),
                   before_ + 1, n_ - 1)

InitBuild ==
    /\ buildOp \in BuildCalls
    /\ buildPc = "addOperands"
    /\ buildPhase = IF buildOp.op = "MapReduceOp" THEN "map" ELSE "reduce"
    /\ opState = EmptyOperationState
    /\ insertionPoint = buildOp.ip
    /\ guards = << >>
    /\ calls = << >>

\* result.addOperands(input); result.addOperands(initArg); result.addTypes(...)
AddOperands ==
    /\ buildPc = "addOperands"
    /\ opState' = [opState EXCEPT !.operands = << "input", "initArg" >>,
                                  !.types = << buildOp.initArg >>]
    /\ buildPc' = "addRegion"
    /\ UNCHANGED <<buildOp, buildPhase, insertionPoint, guards, calls>>
    /\ UNCHANGED <<mmaVars, verifyVars, reorderVars, foldVars, funcVars>>

\* result.addRegion(); region->push_back(new Block)
AddRegion ==
    /\ buildPc = "addRegion"
    /\ opState' = [opState EXCEPT
                     !.regions = Append(@, [blocks |-> << Block(<< >>, << >>) >>])]
    /\ buildPc' = "addArgument"
    /\ UNCHANGED <<buildOp, buildPhase, insertionPoint, guards, calls>>
    /\ UNCHANGED <<mmaVars, verifyVars, reorderVars, foldVars, funcVars>>

\* bodyBlock.addArgument(initArg.getType(), result.location)
AddArgument ==
    /\ buildPc = "addArgument"
    /\ LET block == Block(Append(bodyBlock.arguments, buildOp.initArg),
                          bodyBlock.operations)
       IN /\ opState' = withBodyBlock(block)
          /\ buildPc' = IF Len(block.arguments) >= NumBodyArguments(buildPhase)
                        THEN "guard" ELSE "addArgument"
    /\ UNCHANGED <<buildOp, buildPhase, insertionPoint, guards, calls>>
    /\ UNCHANGED <<mmaVars, verifyVars, reorderVars, foldVars, funcVars>>

\* OpBuilder::InsertionGuard guard(builder)
SaveInsertionPoint ==
    /\ buildPc = "guard"
    /\ guards' = Append(guards, insertionPoint)
    /\ buildPc' = "setInsertionPoint"
    /\ UNCHANGED <<buildOp, buildPhase, opState, insertionPoint, calls>>
    /\ UNCHANGED <<mmaVars, verifyVars, reorderVars, foldVars, funcVars>>

\* builder.setInsertionPointToStart(&bodyBlock)
SetInsertionPointToStart ==
    /\ buildPc = "setInsertionPoint"
    /\ insertionPoint' = InsertionPoint(bodyRegion, 1)
    /\ buildPc' = "body"
    /\ UNCHANGED <<buildOp, buildPhase, opState, guards, calls>>
    /\ UNCHANGED <<mmaVars, verifyVars, reorderVars, foldVars, funcVars>>

\* if (bodyBuilder) bodyBuilder(builder, result.location, bodyBlock.getArgument(..))
InvokeBodyBuilder ==
    /\ buildPc = "body"
    /\ bodyBuilderSupplied(buildPhase)
    /\ \E n \in 0..MaxBodyOps :
         LET created == InsertionPoint(insertionPoint.block, insertionPoint.before + n)
         IN \E left \in { created } \cup CallerInsertionPoints :
              /\ opState' = withBodyBlock(
                     Block(bodyBlock.arguments,
                           createOps(bodyBlock.operations, insertionPoint.before, n)))
              /\ insertionPoint' = left
              /\ calls' = Append(calls, [callback |-> buildPhase,
                                         insertionPoint |-> insertionPoint,
                                         regions |-> opState.regions,
                                         left |-> left])
    /\ buildPc' = "restore"
    /\ UNCHANGED <<buildOp, buildPhase, guards>>
    /\ UNCHANGED <<mmaVars, verifyVars, reorderVars, foldVars, funcVars>>

\* the body builder is null: nothing is called
SkipBodyBuilder ==
    /\ buildPc = "body"
    /\ ~bodyBuilderSupplied(buildPhase)
    /\ buildPc' = "restore"
    /\ UNCHANGED <<buildOp, buildPhase, opState, insertionPoint, guards, calls>>
    /\ UNCHANGED <<mmaVars, verifyVars, reorderVars, foldVars, funcVars>>

\* the guard goes out of scope; MapReduceOp::build goes on to its reduce region
RestoreInsertionPoint ==
    /\ buildPc = "restore"
    /\ insertionPoint' = InsertionGuard(guards[Len(guards)], insertionPoint)
    /\ guards' = SubSeq(guards, 1, Len(guards) - 1)
    /\ IF buildOp.op = "MapReduceOp" /\ buildPhase = "map"
       THEN buildPhase' = "reduce" /\ buildPc' = "addRegion"
       ELSE buildPhase' = buildPhase /\ buildPc' = "done"
    /\ UNCHANGED <<buildOp, opState, calls>>
    /\ UNCHANGED <<mmaVars, verifyVars, reorderVars, foldVars, funcVars>>

NextBuild ==
    \/ AddOperands
    \/ AddRegion
    \/ AddArgument
    \/ SaveInsertionPoint
    \/ SetInsertionPointToStart
    \/ InvokeBodyBuilder
    \/ SkipBodyBuilder
    \/ RestoreInsertionPoint

(***************************************************************************)
(* Function-like operations: ValueFuncOp::build (plain and external),      *)
(* ValueLambdaOp::build, ValueFuncOp::verify, ValueFuncOp::eraseArguments. *)
(*                                                                         *)
(* A function is its attributes, its per-argument attribute dictionaries   *)
(* and its body region.  Entry-block arguments are objects: each carries   *)
(* the position it was created at (id) besides its type, so that erasing   *)
(* the wrong argument of the right type is visible.                        *)
(***************************************************************************)
MaxArgs == 3
MaxIndices == 2

FunctionType(inputs_, results_) == [inputs |-> inputs_, results |-> results_]
\* result.addAttribute(name, value) on a dictionary of named attributes
addAttribute(attributes_, name_, value_) ==
    [n \in DOMAIN attributes_ \cup { name_ } |->
        IF n = name_ THEN value_ ELSE attributes_[n]]

\* Only ValueFuncOp::build has an ExternalFuncTag overload.
FuncCalls ==
    { c \in { [op |-> o, name |-> "fn", type |-> FunctionType(i, r), target |-> t,
               external |-> e, ip |-> InsertionPoint(0, 1)] :
                 o \in { "ValueFuncOp", "ValueLambdaOp" },
                 i \in UNION { [1..n -> { "f32", "i32" }] : n \in 0..MaxArgs },
                 r \in { << >>, << "f32" >> }, t \in { "CPU", "GPU" },
                 e \in BOOLEAN } :
        c.external => c.op = "ValueFuncOp" }

NoFunc == [attributes |-> [n \in {} |-> ""], argAttrs |-> << >>, regions |-> << >>]
NoFuncCall ==
    [op |-> "none", name |-> "", type |-> FunctionType(<< >>, << >>), target |-> "none",
     external |-> FALSE, ip |-> InsertionPoint(0, 1)]

\* the three result.addAttribute calls shared by the function-like builders
funcAttributes_NoTarget(attributes_, name_, type_, target_) ==
    addAttribute(addAttribute(attributes_, "sym_name", name_), "type", type_)
funcAttributes(attributes_, name_, type_, target_) ==
    addAttribute(addAttribute(addAttribute(attributes_, "sym_name", name_),
                              "type", type_),
                 "exec_target", target_)

\* entryBlock->addArguments(type.getInputs(), ...)
addArguments(inputs_) == [i \in 1..Len(inputs_) |-> [id |-> i - 1, type |-> inputs_[i]]]

hasAttr(f_, name_) == name_ \in DOMAIN f_.attributes
getAttr(f_, name_) == f_.attributes[name_]
getType(f_) == getAttr(f_, "type")
setType(f_, type_) == [f_ EXCEPT !.attributes = addAttribute(@, "type", type_)]
front(f_) == f_.regions[1].blocks[1]

\* The external marker is what the external builder sets.  For a function
\* made by the plain builder the hook answers false whether it reads the
\* marker or looks for an empty body region.
isExternal(f_) == hasAttr(f_, "external")

\* ValueFuncOp::verify: the entry block's argument types line up with the
\* signature; reading fnInputTypes past its end trips ArrayRef's assertion.
RECURSIVE verifyArguments(_, _, _)
verifyArguments(fnInputTypes_, arguments_, i_) ==
    IF i_ = Len(arguments_) THEN success
    ELSE IF i_ >= Len(fnInputTypes_) THEN assertFailed
    ELSE IF fnInputTypes_[i_ + 1] # arguments_[i_ + 1].type
         THEN emitError("type of entry block argument must match the function signature")
    ELSE verifyArguments(fnInputTypes_, arguments_, i_ + 1)

ValueFuncOp_verify(f_) ==
    IF isExternal(f_) THEN success
    ELSE verifyArguments(getType(f_).inputs, front(f_).arguments, 0)

\* llvm::BitVector eraseIndices: duplicates and order of argIndices vanish
eraseIndices(argIndices_) == { argIndices_[k] : k \in 1..Len(argIndices_) }

\* the first loop of eraseArguments, over i = 0 .. originalNumArgs - 1
RECURSIVE keepUnerased(_, _, _)
keepUnerased(list_, erase_, i_) ==
    IF i_ >= Len(list_) THEN << >>
    ELSE (IF i_ \in erase_ THEN << >> ELSE << list_[i_ + 1] >>)
             \o keepUnerased(list_, erase_, i_ + 1)

\* Block::eraseArgument(index): the later arguments move down by one
eraseArgument(arguments_, index_) ==
    SubSeq(arguments_, 1, index_) \o SubSeq(arguments_, index_ + 2, Len(arguments_))

\* the second loop of eraseArguments, from the last index to the first
RECURSIVE eraseBlockArguments_Forward(_, _, _, _)
eraseBlockArguments_Forward(arguments_, erase_, originalNumArgs_, i_) ==
    IF i_ >= originalNumArgs_ THEN arguments_
    ELSE eraseBlockArguments_Forward(
             IF i_ \in erase_ THEN eraseArgument(arguments_, i_) ELSE arguments_,
             erase_, originalNumArgs_, i_ + 1)

RECURSIVE eraseBlockArguments(_, _, _, _)
eraseBlockArguments(arguments_, erase_, originalNumArgs_, i_) ==
    IF i_ >= originalNumArgs_ THEN arguments_
    ELSE eraseBlockArguments(
             IF (originalNumArgs_ - i_ - 1) \in erase_
             THEN eraseArgument(arguments_, originalNumArgs_ - i_ - 1)
             ELSE arguments_,
             erase_, originalNumArgs_, i_ + 1)

ValueFuncOp_eraseArguments(f_, argIndices_) ==
    LET oldType == getType(f_)
        originalNumArgs == Len(oldType.inputs)
        erase == eraseIndices(argIndices_)
        newInputTypes == keepUnerased(oldType.inputs, erase, 0)
        newArgAttrs == keepUnerased(f_.argAttrs, erase, 0)
        typed == setType(f_, FunctionType(newInputTypes, oldType.results))
        entry == front(f_)
    IN [typed EXCEPT
          !.argAttrs = newArgAttrs,
          !.regions[1].blocks[1] =
              Block(eraseBlockArguments(entry.arguments, erase, originalNumArgs, 0),
                    entry.operations)]

\* the index lists a caller may pass: in range, in any order, with repeats
ArgIndices(numArgs_) == UNION { [1..k -> 0..(numArgs_ - 1)] : k \in 0..MaxIndices }

InitFunc ==
    /\ funcArgs \in FuncCalls
    /\ funcPc = "addAttributes"
    /\ func = NoFunc
    /\ funcIP = funcArgs.ip
    /\ funcGuards = << >>
    /\ erasedArgs = {}
    /\ funcVerdict = NoVerdict

\* result.addAttribute(...) for the symbol name, the type, the execution target
FuncAddAttributes ==
    /\ funcPc = "addAttributes"
    /\ func' = [func EXCEPT !.attributes =
                   funcAttributes(@, funcArgs.name, funcArgs.type, funcArgs.target)]
    /\ funcPc' = "addBody"
    /\ UNCHANGED <<funcArgs, funcIP, funcGuards, erasedArgs, funcVerdict>>
    /\ UNCHANGED <<mmaVars, verifyVars, reorderVars, foldVars, buildVars>>

\* result.addRegion(); new Block; addArguments(type.getInputs()); push_back
FuncAddBody ==
    /\ funcPc = "addBody"
    /\ func' = [func EXCEPT
                   !.argAttrs = [i \in 1..Len(funcArgs.type.inputs) |-> "{}"],
                   !.regions = Append(@,
                       [blocks |-> << Block(addArguments(funcArgs.type.inputs), << >>) >>])]
    /\ funcPc' = IF funcArgs.external THEN "addExternal" ELSE "built"
    /\ UNCHANGED <<funcArgs, funcIP, funcGuards, erasedArgs, funcVerdict>>
    /\ UNCHANGED <<mmaVars, verifyVars, reorderVars, foldVars, buildVars>>

\* result.addAttribute("external", builder.getUnitAttr())
FuncAddExternal ==
    /\ funcPc = "addExternal"
    /\ func' = [func EXCEPT !.attributes = addAttribute(@, "external", "unit")]
    /\ funcPc' = "guard"
    /\ UNCHANGED <<funcArgs, funcIP, funcGuards, erasedArgs, funcVerdict>>
    /\ UNCHANGED <<mmaVars, verifyVars, reorderVars, foldVars, buildVars>>

\* OpBuilder::InsertionGuard guard{ builder }
FuncSaveInsertionPoint ==
    /\ funcPc = "guard"
    /\ funcGuards' = Append(funcGuards, funcIP)
    /\ funcPc' = "setInsertionPoint"
    /\ UNCHANGED <<funcArgs, func, funcIP, erasedArgs, funcVerdict>>
    /\ UNCHANGED <<mmaVars, verifyVars, reorderVars, foldVars, buildVars>>

\* builder.setInsertionPointToEnd(&result.regions[0]->front())
FuncSetInsertionPointToEnd ==
    /\ funcPc = "setInsertionPoint"
    /\ funcIP' = InsertionPoint(1, Len(front(func).operations) + 1)
    /\ funcPc' = "createReturn"
    /\ UNCHANGED <<funcArgs, func, funcGuards, erasedArgs, funcVerdict>>
    /\ UNCHANGED <<mmaVars, verifyVars, reorderVars, foldVars, buildVars>>

\* builder.create<ir::value::ReturnOp>(result.location)
FuncCreateReturn ==
    /\ funcPc = "createReturn"
    /\ LET entry == front(func)
       IN func' = [func EXCEPT !.regions[1].blocks[1] =
              Block(entry.arguments,
                    SubSeq(entry.operations, 1, funcIP.before - 1) \o << "ReturnOp" >>
                        \o SubSeq(entry.operations, funcIP.before, Len(entry.operations)))]
    /\ funcIP' = InsertionPoint(funcIP.block, funcIP.before + 1)
    /\ funcPc' = "restore"
    /\ UNCHANGED <<funcArgs, funcGuards, erasedArgs, funcVerdict>>
    /\ UNCHANGED <<mmaVars, verifyVars, reorderVars, foldVars, buildVars>>

\* the guard goes out of scope at the end of the external builder
FuncRestoreInsertionPoint ==
    /\ funcPc = "restore"
    /\ funcIP' = InsertionGuard(funcGuards[Len(funcGuards)], funcIP)
    /\ funcGuards' = SubSeq(funcGuards, 1, Len(funcGuards) - 1)
    /\ funcPc' = "built"
    /\ UNCHANGED <<funcArgs, func, erasedArgs, funcVerdict>>
    /\ UNCHANGED <<mmaVars, verifyVars, reorderVars, foldVars, buildVars>>

\* ValueFuncOp::verify() on the built function
VerifyFunc ==
    /\ funcPc = "built"
    /\ funcArgs.op = "ValueFuncOp"
    /\ funcVerdict = NoVerdict
    /\ funcVerdict' = ValueFuncOp_verify(func)
    /\ UNCHANGED <<funcArgs, funcPc, func, funcIP, funcGuards, erasedArgs>>
    /\ UNCHANGED <<mmaVars, verifyVars, reorderVars, foldVars, buildVars>>

\* ValueFuncOp::eraseArguments(argIndices) on the built function
EraseArguments ==
    /\ funcPc = "built"
    /\ funcArgs.op = "ValueFuncOp"
    /\ \E argIndices \in ArgIndices(Len(getType(func).inputs)) :
         /\ func' = ValueFuncOp_eraseArguments(func, argIndices)
         /\ erasedArgs' = erasedArgs \cup
                { front(func).arguments[i + 1].id : i \in eraseIndices(argIndices) }
    /\ funcVerdict' = NoVerdict
    /\ UNCHANGED <<funcArgs, funcPc, funcIP, funcGuards>>
    /\ UNCHANGED <<mmaVars, verifyVars, reorderVars, foldVars, buildVars>>

NextFunc ==
    \/ FuncAddAttributes
    \/ FuncAddBody
    \/ FuncAddExternal
    \/ FuncSaveInsertionPoint
    \/ FuncSetInsertionPointToEnd
    \/ FuncCreateReturn
    \/ FuncRestoreInsertionPoint
    \/ VerifyFunc
    \/ EraseArguments

(***************************************************************************)
(* Specifications: one per group; the other groups stay idle.              *)
(***************************************************************************)
IdleMMA == mma = NoMMA /\ query = NoQuery
IdleVerify == verified = NoOp /\ verdict = NoVerdict
IdleReorder ==
    /\ stage = "none"
    /\ sourceType = NoType /\ prevType = NoType /\ resultType = NoType
    /\ order1 = NoOrder /\ order2 = NoOrder
IdleFold == folded = NoFold /\ foldResult = Unfolded

IdleBuild ==
    /\ buildOp = NoBuild /\ buildPc = "idle" /\ buildPhase = "none"
    /\ opState = EmptyOperationState
    /\ insertionPoint = NoBuild.ip /\ guards = << >> /\ calls = << >>
IdleFunc ==
    /\ funcArgs = NoFuncCall /\ funcPc = "idle" /\ func = NoFunc
    /\ funcIP = NoFuncCall.ip /\ funcGuards = << >>
    /\ erasedArgs = {} /\ funcVerdict = NoVerdict

InitMMA == IdleMMA /\ IdleVerify /\ IdleReorder /\ IdleFold /\ IdleBuild /\ IdleFunc
SpecMMA == InitMMA /\ [][NextMMA]_vars

InitSpecVerify == IdleMMA /\ InitVerify /\ IdleReorder /\ IdleFold /\ IdleBuild /\ IdleFunc
SpecVerify == InitSpecVerify /\ [][NextVerify]_vars

InitSpecReorder == IdleMMA /\ IdleVerify /\ InitReorder /\ IdleFold /\ IdleBuild /\ IdleFunc
SpecReorder == InitSpecReorder /\ [][NextReorder]_vars

InitSpecFold == IdleMMA /\ IdleVerify /\ IdleReorder /\ InitFold /\ IdleBuild /\ IdleFunc
SpecFold == InitSpecFold /\ [][NextFold]_vars

InitSpecBuild == IdleMMA /\ IdleVerify /\ IdleReorder /\ IdleFold /\ InitBuild /\ IdleFunc
SpecBuild == InitSpecBuild /\ [][NextBuild]_vars

InitSpecFunc == IdleMMA /\ IdleVerify /\ IdleReorder /\ IdleFold /\ IdleBuild /\ InitFunc
SpecFunc == InitSpecFunc /\ [][NextFunc]_vars

(***************************************************************************)
(* Claims about the MMA shape table, checked under SpecMMA.                *)
(***************************************************************************)

\* What the name of an enumerator spells.
NameTuple(shape_) ==
    Descriptor(shape_, shape_[1], shape_[2], shape_[3], shape_[4])

\* C1: constructing an MMAOp from an enumerator of MMAShape yields exactly the
\* (m, n, k, blocks) its name spells, for every enumerator; a value outside the
\* enumeration ends in the "Invalid MMA shape." assertion and yields no descriptor.
C1_DescriptorMatchesName ==
    mma.status # "none" =>
        IF mma.shape \in MMAShape
        THEN mma = NameTuple(mma.shape)
        ELSE mma.status = "fatal"

C1_Witness ==
    /\ mma.shape = M32xN8xK16_B1
    /\ mma.status = "ok"
    /\ << mma.m, mma.n, mma.k, mma.blocks >> = << 32, 8, 16, 1 >>

SupportedShapes == { s \in ShapeInputs : MMAOp(s).status = "ok" }

\* C2 as stated: the table supports exactly 13 configurations, and every m, n
\* and k is one of 8, 16, 32, 64 and every block count one of 1, 2, 4.
C2_Original ==
    Constructed =>
        /\ Cardinality(SupportedShapes) = 13
        /\ {mma.m, mma.n, mma.k} \subseteq {8, 16, 32, 64}
        /\ mma.blocks \in {1, 2, 4}

\* C2 amended: the table supports exactly 14 configurations; every m and n is
\* one of 8, 16, 32, 64, every k one of 1, 2, 4, 8, 16 and every block count
\* one of 1, 2, 4.
C2_ShapeTable ==
    Constructed =>
        /\ Cardinality(SupportedShapes) = 14
        /\ {mma.m, mma.n} \subseteq {8, 16, 32, 64}
        /\ mma.k \in {1, 2, 4, 8, 16}
        /\ mma.blocks \in {1, 2, 4}

C2_Witness ==
    /\ Constructed
    /\ mma.shape = M64xN64xK1_B4
    /\ mma.k = 1

\* C3: for every MMAShape the length of getOffsetMap() is
\* getOffsetMapSize()[0] * getOffsetMapSize()[1]; with blocks = 2 or m = 32 the
\* map has 32 entries and shape (16, 2), otherwise 16 entries and shape (4, 4).
C3_OffsetMapShape ==
    /\ query.fn = "getOffsetMap" =>
          /\ Len(query.ret) = getOffsetMapSize(mma)[1] * getOffsetMapSize(mma)[2]
          /\ Len(query.ret) = IF mma.blocks = 2 \/ mma.m = 32 THEN 32 ELSE 16
    /\ query.fn = "getOffsetMapSize" =>
          /\ query.ret[1] * query.ret[2] = Len(getOffsetMap(mma))
          /\ query.ret = IF mma.blocks = 2 \/ mma.m = 32 THEN << 16, 2 >> ELSE << 4, 4 >>

C3_Witness ==
    /\ query.fn = "getOffsetMapSize"
    /\ mma.shape = M32xN8xK16_B1
    /\ query.ret = << 16, 2 >>

\* C4: for every MMAShape getOperandShape(A) is (m, k), getOperandShape(B) is
\* (k, n), getOperandShape(Acc) is (m, n); any other role gives the empty shape
\* and raises nothing.
C4_OperandShape ==
    query.fn = "getOperandShape" =>
        /\ query.operand = "A" => query.ret = << mma.m, mma.k >>
        /\ query.operand = "B" => query.ret = << mma.k, mma.n >>
        /\ query.operand = "Acc" => query.ret = << mma.m, mma.n >>
        /\ query.operand \notin MMAOperandType => query.ret = << >>
        /\ mma.status = "ok"

C4_Witness ==
    /\ query.fn = "getOperandShape"
    /\ query.operand = "D"
    /\ query.ret = << >>
    /\ mma.shape = M32xN8xK16_B1

(***************************************************************************)
(* Claims about ReorderOp::build, checked under SpecReorder.               *)
(***************************************************************************)

\* C5: reorder round trip: for every strided source type and every order P that
\* is a bijection on [0, rank), a ReorderOp with P followed by a ReorderOp with
\* the inverse of P yields a type with the shape, strides and offset of the source.
C5_RoundTrip ==
    stage = "restored" =>
        /\ resultType.shape = sourceType.shape
        /\ getStridesAndOffset(resultType).strides = getStridesAndOffset(sourceType).strides
        /\ getStridesAndOffset(resultType).offset = getStridesAndOffset(sourceType).offset

C5_Witness ==
    /\ stage = "restored"
    /\ order1 = [i \in 0..2 |-> (i + 1) % 3]
    /\ order2 = [i \in 0..2 |-> (i + 2) % 3]
    /\ sourceType.shape = [i \in 0..2 |-> IF i = 0 THEN 2 ELSE 3]
    /\ sourceType.layout = makeStridedLinearLayoutMap([i \in 0..2 |-> IF i = 1 THEN 1 ELSE 2], 1)
    /\ resultType.shape = sourceType.shape

\* The index values below the largest of DimSizes.
IndexInputs == { 0, 1, 2 }

\* Index vectors of the rank of the given shape; they include every index of a
\* buffer of that shape.
Indices(shape_) == [DOMAIN shape_ -> IndexInputs]

RECURSIVE Dot(_, _, _)
\* a[0] * b[0] + .. + a[n - 1] * b[n - 1]
Dot(a, b, n) == IF n = 0 THEN 0 ELSE a[n - 1] * b[n - 1] + Dot(a, b, n - 1)

\* The linear address a strided layout (strides and offset) assigns to an index.
LinearAddress(layout, idx, n) == layout.offset + Dot(idx, layout.strides, n)

LastOrder == IF stage = "restored" THEN order2 ELSE order1

\* C6: ReorderOp::build preserves element addressing: with order P the result
\* shape at position i is the source size at dimension P[i], the address of the
\* permuted index (i0..in) in the result layout is the address the source layout
\* gives the index with each i_j placed at source dimension P[j], and the base
\* offset is unchanged.
C6_AddressingPreserved ==
    stage \in { "reordered", "restored" } =>
        \A P \in { LastOrder }, n \in { Rank(resultType) },
           src \in { getStridesAndOffset(prevType) },
           res \in { getStridesAndOffset(resultType) } :
           \* position[d]: the j with P[j] = d, so that i_j sits at source dimension d
           \A position \in { [d \in DOMAIN P |-> CHOOSE j \in DOMAIN P : P[j] = d] } :
              /\ DOMAIN resultType.shape = DOMAIN P
              /\ \A i \in DOMAIN P : resultType.shape[i] = prevType.shape[P[i]]
              /\ \A idx \in Indices(resultType.shape) :
                    LinearAddress(res, idx, n)
                      = LinearAddress(src, [d \in DOMAIN P |-> idx[position[d]]], n)
              /\ res.offset = src.offset

C6_Witness ==
    /\ stage = "reordered"
    /\ order1 = [i \in 0..2 |-> (i + 1) % 3]
    /\ prevType = MemRefType([i \in 0..2 |-> IF i = 0 THEN 2 ELSE 3], IdentityLayout)
    /\ resultType.shape = [i \in 0..2 |-> IF i = 2 THEN 2 ELSE 3]
    /\ resultType.layout.coeffs = [i \in 0..2 |-> IF i = 0 THEN 3 ELSE IF i = 1 THEN 1 ELSE 9]

(***************************************************************************)
(* Claims about the verifiers, checked under SpecVerify.                   *)
(***************************************************************************)
AllowedMemorySpaces == { "None", "Global", "Shared", "Private", "Tensor" }

Verified(op_) == verified.op = op_ /\ verdict # NoVerdict

\* C7: the MMALoadSyncOp and MMAStoreSyncOp verifiers accept exactly the memory
\* spaces None, Global, Shared, Private and Tensor for the source (load) or
\* destination (store) buffer, and return a failure for any other memory space.
\* (A load of an allowed space is accepted when its operand is loadable; the
\* memory-space diagnostic is emitted for the other spaces and only for them.)
C7_MemorySpaces ==
    /\ Verified("MMAStoreSyncOp") =>
          /\ verified.memorySpace \in AllowedMemorySpaces <=> verdict = success
          /\ verified.memorySpace \notin AllowedMemorySpaces <=> verdict.result = "failure"
    /\ Verified("MMALoadSyncOp") =>
          /\ verified.memorySpace \notin AllowedMemorySpaces => verdict.result = "failure"
          /\ verified.memorySpace \notin AllowedMemorySpaces
                <=> verdict = emitError("source memorySpace None, Shared, Private, Global or Tensor only allowed")
          /\ (verified.memorySpace \in AllowedMemorySpaces /\ verified.operandType \in MMAOperandType)
                => verdict = success

C7_Witness ==
    /\ Verified("MMALoadSyncOp")
    /\ verified.memorySpace = "Tensor"
    /\ verified.operandType = "B"
    /\ verdict = success

\* What the GPUBlockCacheOp verifier reports as a diagnostic.
BlockCacheIllFormed(op) ==
    \/ Len(op.tileShape) # 2
    \/ Len(op.dstShape) # 2
    \/ op.workPerThread < 1
    \/ op.vecWidth < 1
    \/ op.workPerThread % op.vecWidth # 0

\* A shared-memory destination whose shape is not the tile's (row-major) or the
\* transposed tile's (column-major).
BlockCacheMismatch(op) ==
    /\ op.memorySpace = "Shared"
    /\ IF op.dstRowMajor
       THEN op.dstShape # op.tileShape
       ELSE op.dstShape # << op.tileShape[2], op.tileShape[1] >>

\* C8: the GPUBlockCacheOp verifier returns a failure whenever the tile shape is
\* not 2-D, the destination is not rank 2, work-per-thread < 1, vector-width < 1
\* or work-per-thread is no multiple of vector-width; it returns success only
\* when all of these hold; a shared-memory destination whose shape mismatches the
\* tile is an assertion failure, never a returned diagnostic.
C8_BlockCache ==
    Verified("GPUBlockCacheOp") =>
        /\ BlockCacheIllFormed(verified) => verdict.result = "failure"
        /\ verdict.result = "failure" => BlockCacheIllFormed(verified)
        /\ verdict = success => ~BlockCacheIllFormed(verified)
        /\ (~BlockCacheIllFormed(verified) /\ BlockCacheMismatch(verified)) => verdict = assertFailed
        /\ (~BlockCacheIllFormed(verified) /\ ~BlockCacheMismatch(verified)) => verdict = success
        /\ (verified.workPerThread = 3 /\ verified.vecWidth = 2) => verdict.result = "failure"

C8_Witness ==
    /\ Verified("GPUBlockCacheOp")
    /\ verified.workPerThread = 4 /\ verified.vecWidth = 2
    /\ verified.memorySpace = "Shared" /\ ~verified.dstRowMajor
    /\ verified.tileShape = << 2, 3 >> /\ verified.dstShape = << 3, 2 >>
    /\ verdict = success

\* C9: the MMAComputeSyncOp verifier returns a failure exactly when the element
\* type of operand A differs from that of operand B and success when they are
\* identical; nothing else about the operands changes the result.
C9_Compute ==
    Verified("MMAComputeSyncOp") =>
        /\ verified.opAType # verified.opBType <=> verdict.result = "failure"
        /\ verified.opAType = verified.opBType <=> verdict = success

C9_Witness ==
    /\ Verified("MMAComputeSyncOp")
    /\ verified.opAType = "f16" /\ verified.opBType = "f16"
    /\ verified.opCType = "f32" /\ verified.memorySpace = "Constant"
    /\ verdict = success

(***************************************************************************)
(* Claims about the folders, checked under SpecFold.                       *)
(***************************************************************************)
Folded(op_) == folded.op = op_ /\ foldResult # Unfolded

RegionOf(callback_) ==
    IF buildOp.op = "MapReduceOp" /\ callback_ = "reduce" THEN 2 ELSE 1

\* the arguments declared for a callback's entry block
DeclaredArguments(callback_) ==
    IF callback_ = "map" THEN << buildOp.initArg >>
    ELSE << buildOp.initArg, buildOp.initArg >>

Invocations(callback_) == { i \in 1..Len(calls) : calls[i].callback = callback_ }

\* C11: in ReduceOp::build and MapReduceOp::build, whenever a body callback
\* runs, its region's entry block already exists with its declared arguments
\* (map: one of initArg's type, reduce: two) and the insertion point is the
\* start of that block; only supplied callbacks run, each at most once and,
\* once build has returned, exactly once; the map callback runs before the
\* reduce callback; and after build returns the builder's insertion point
\* is the one it had before the call, wherever the callbacks left it.
C11_CallbacksScoped ==
    /\ \A i \in 1..Len(calls) :
         LET c == calls[i]
             r == RegionOf(c.callback)
         IN /\ bodyBuilderSupplied(c.callback)
            /\ Len(c.regions) >= r
            /\ Len(c.regions[r].blocks) = 1
            /\ c.regions[r].blocks[1].arguments = DeclaredArguments(c.callback)
            /\ c.insertionPoint = InsertionPoint(r, 1)
            /\ Invocations(c.callback) = { i }
            /\ (c.callback = "reduce" /\ buildOp.mapBodyBuilder)
                   => \E j \in 1..(i - 1) : calls[j].callback = "map"
    /\ buildPc = "done" =>
         /\ \A cb \in { "map", "reduce" } :
              Cardinality(Invocations(cb)) = IF bodyBuilderSupplied(cb) THEN 1 ELSE 0
         /\ insertionPoint = buildOp.ip
         /\ guards = << >>

\* MapReduceOp::build has returned after running both callbacks, map first,
\* the reduce callback having left the builder pointing somewhere else.
C11_Witness ==
    /\ buildPc = "done"
    /\ buildOp.op = "MapReduceOp"
    /\ Len(calls) = 2
    /\ calls[1].callback = "map" /\ calls[2].callback = "reduce"
    /\ calls[2].left # buildOp.ip
    /\ insertionPoint = buildOp.ip

(***************************************************************************)
(* Claims about the function-like operations, checked under SpecFunc.      *)
(***************************************************************************)
FreshlyBuilt == funcPc = "built" /\ erasedArgs = {}

\* what every function-like builder attaches
BuiltAttributes ==
    /\ hasAttr(func, "sym_name") /\ getAttr(func, "sym_name") = funcArgs.name
    /\ hasAttr(func, "type") /\ getAttr(func, "type") = funcArgs.type
    /\ hasAttr(func, "exec_target") /\ getAttr(func, "exec_target") = funcArgs.target

\* C12 as stated: the function-like builders attach a symbol name, a
\* function-type attribute and an execution-target attribute; the external
\* ValueFuncOp builder also sets the external marker, creates no body (the
\* entry block carries none of the signature's arguments) and emits a
\* trivial return terminator.
C12_Original ==
    FreshlyBuilt =>
        /\ BuiltAttributes
        /\ funcArgs.external =>
             /\ hasAttr(func, "external")
             /\ front(func).arguments = << >>
             /\ front(func).operations = << "ReturnOp" >>

\* C12, amended: the function-like builders attach a symbol name, a
\* function-type attribute and an execution-target attribute and create one
\* body region whose entry block has one argument per signature input; the
\* external ValueFuncOp builder creates that same body, sets the external
\* marker, and emits a return terminator as the entry block's only
\* operation, leaving the builder's insertion point where it was; the other
\* builders set no marker and leave the entry block without operations.
C12_FunctionLikeBuilders ==
    FreshlyBuilt =>
        /\ BuiltAttributes
        /\ Len(func.regions) = 1
        /\ Len(func.regions[1].blocks) = 1
        /\ front(func).arguments = addArguments(funcArgs.type.inputs)
        /\ funcIP = funcArgs.ip
        /\ IF funcArgs.external
           THEN /\ hasAttr(func, "external")
                /\ front(func).operations = << "ReturnOp" >>
           ELSE /\ ~hasAttr(func, "external")
                /\ front(func).operations = << >>

\* An external function with inputs has been built: marker, entry block
\* with the signature's arguments, and the return terminator in it.
C12_Witness ==
    /\ FreshlyBuilt
    /\ funcArgs.external
    /\ hasAttr(func, "external")
    /\ Len(front(func).arguments) >= 2
    /\ front(func).operations = << "ReturnOp" >>

\* the original positions that no eraseArguments call was asked to erase
RECURSIVE SurvivingFrom(_)
SurvivingFrom(id_) ==
    IF id_ >= Len(funcArgs.type.inputs) THEN << >>
    ELSE (IF id_ \in erasedArgs THEN << >> ELSE << id_ >>) \o SurvivingFrom(id_ + 1)

Surviving == SurvivingFrom(0)

\* C13: starting from a non-external function built with entry-block
\* arguments equal to its signature inputs, after any sequence of
\* eraseArguments calls with in-range index lists (repeats allowed, any
\* order) the signature inputs and the entry-block arguments are exactly
\* the surviving arguments in their original order, of equal length and
\* pairwise equal types, ValueFuncOp::verify succeeds, and the result types
\* are unchanged.
C13_EraseKeepsAgreement ==
    (funcPc = "built" /\ funcArgs.op = "ValueFuncOp" /\ ~funcArgs.external) =>
        \A s \in { Surviving } :
            /\ getType(func).inputs = [k \in 1..Len(s) |-> funcArgs.type.inputs[s[k] + 1]]
            /\ front(func).arguments =
                   [k \in 1..Len(s) |-> [id |-> s[k], type |-> funcArgs.type.inputs[s[k] + 1]]]
            /\ Len(getType(func).inputs) = Len(front(func).arguments)
            /\ \A k \in 1..Len(s) :
                   getType(func).inputs[k] = front(func).arguments[k].type
            /\ ValueFuncOp_verify(func) = success
            /\ funcVerdict \in { NoVerdict, success }
            /\ getType(func).results = funcArgs.type.results

\* Two of three arguments of differing types have been erased from a
\* non-external function with a result, and verify has succeeded since.
C13_Witness ==
    /\ funcPc = "built"
    /\ funcArgs.op = "ValueFuncOp" /\ ~funcArgs.external
    /\ funcArgs.type.inputs = << "f32", "i32", "f32" >>
    /\ funcArgs.type.results # << >>
    /\ erasedArgs = { 0, 1 }
    /\ Len(front(func).arguments) = 1
    /\ funcVerdict = success
====
